---------------------------- MODULE Spec2Model ----------------------------
(***************************************************************************)
(* Model of the Hawk React Native catcher (packages/core/src/index.ts):    *)
(* the Catcher class (token decoding, endpoint resolution, context merge,  *)
(* beforeSend hook, delivery through fetch) and the HawkCatcher facade     *)
(* over the module-level _instance.                                        *)
(*                                                                         *)
(* A JavaScript string is a sequence of one-character strings.  An         *)
(* optional value (undefined or a value) is a sequence of length 0 or 1.   *)
(***************************************************************************)
EXTENDS Integers, Sequences, FiniteSets, TLC

None == <<>>
Some(v) == <<v>>

(***************************************************************************)
(* Characters.  Ascii[i] is the character with code i + 31 (the grave      *)
(* accent, code 96, is written GRAVE).                                     *)
(***************************************************************************)
Ascii ==
  <<" ", "!", "\"", "#", "$", "%", "&", "'", "(", ")", "*", "+", ",", "-", ".", "/",
    "0", "1", "2", "3", "4", "5", "6", "7", "8", "9", ":", ";", "<", "=", ">", "?",
    "@", "A", "B", "C", "D", "E", "F", "G", "H", "I", "J", "K", "L", "M", "N", "O",
    "P", "Q", "R", "S", "T", "U", "V", "W", "X", "Y", "Z", "[", "\\", "]", "^", "_",
    "GRAVE", "a", "b", "c", "d", "e", "f", "g", "h", "i", "j", "k", "l", "m", "n", "o",
    "p", "q", "r", "s", "t", "u", "v", "w", "x", "y", "z", "{", "|", "}", "~">>

\* The character a decoder yields for a byte that is no printable ASCII
\* character (U+FFFD, or a control character).
Replacement == "U+FFFD"

CharOfByte(b) == IF b >= 32 /\ b <= 126 THEN Ascii[b - 31] ELSE Replacement

(***************************************************************************)
(* Buffer.from(token, 'base64').toString('utf-8')                          *)
(***************************************************************************)
Base64Alphabet ==
  <<"A", "B", "C", "D", "E", "F", "G", "H", "I", "J", "K", "L", "M", "N", "O", "P",
    "Q", "R", "S", "T", "U", "V", "W", "X", "Y", "Z", "a", "b", "c", "d", "e", "f",
    "g", "h", "i", "j", "k", "l", "m", "n", "o", "p", "q", "r", "s", "t", "u", "v",
    "w", "x", "y", "z", "0", "1", "2", "3", "4", "5", "6", "7", "8", "9", "+", "/">>

IsBase64Char(c) == (\E i \in 1..64 : Base64Alphabet[i] = c) \/ c = "-" \/ c = "_"

Sextet(c) ==
  IF c = "-" THEN 62
  ELSE IF c = "_" THEN 63
  ELSE (CHOOSE i \in 1..64 : Base64Alphabet[i] = c) - 1

\* The decoder reads up to the first "=" and skips every character that is
\* not in the alphabet.
RECURSIVE Sextets(_)
Sextets(s) ==
  IF s = <<>> \/ Head(s) = "=" THEN <<>>
  ELSE IF IsBase64Char(Head(s)) THEN <<Sextet(Head(s))>> \o Sextets(Tail(s))
  ELSE Sextets(Tail(s))

\* Four sextets give three bytes; a final group of three gives two bytes,
\* of two gives one byte, of one gives none.
RECURSIVE BytesOfSextets(_)
BytesOfSextets(q) ==
  IF Len(q) < 2 THEN <<>>
  ELSE IF Len(q) = 2 THEN <<q[1] * 4 + q[2] \div 16>>
  ELSE IF Len(q) = 3 THEN <<q[1] * 4 + q[2] \div 16, (q[2] % 16) * 16 + q[3] \div 4>>
  ELSE <<q[1] * 4 + q[2] \div 16, (q[2] % 16) * 16 + q[3] \div 4, (q[3] % 4) * 64 + q[4]>>
       \o BytesOfSextets(SubSeq(q, 5, Len(q)))

BufferFromBase64(s) == BytesOfSextets(Sextets(s))

BufferToString(bytes) == [i \in 1..Len(bytes) |-> CharOfByte(bytes[i])]

(***************************************************************************)
(* JSON.parse, for the texts made of objects, strings without escapes,     *)
(* non-negative integers and the literals true, false and null.  A parsed  *)
(* value is a record with a field t naming its type.                       *)
(***************************************************************************)
IsWs(c) == c = " "
IsDigit(c) == c \in {"0", "1", "2", "3", "4", "5", "6", "7", "8", "9"}

Fail == [ok |-> FALSE]

RECURSIVE SkipWs(_, _)
SkipWs(s, i) == IF i <= Len(s) /\ IsWs(s[i]) THEN SkipWs(s, i + 1) ELSE i

\* s[i] is the character after the opening quote; the result's i is the
\* position after the closing quote.
RECURSIVE ParseStringBody(_, _, _)
ParseStringBody(s, i, acc) ==
  IF i > Len(s) THEN Fail
  ELSE IF s[i] = "\"" THEN [ok |-> TRUE, v |-> [t |-> "string", s |-> acc], i |-> i + 1]
  ELSE IF s[i] = "\\" THEN Fail
  ELSE ParseStringBody(s, i + 1, Append(acc, s[i]))

RECURSIVE ParseDigits(_, _, _)
ParseDigits(s, i, acc) ==
  IF i <= Len(s) /\ IsDigit(s[i]) THEN ParseDigits(s, i + 1, Append(acc, s[i]))
  ELSE [ok |-> ~(Len(acc) > 1 /\ acc[1] = "0"), v |-> [t |-> "number", s |-> acc], i |-> i]

ParseLiteral(s, i, word, value) ==
  IF i + Len(word) - 1 <= Len(s) /\ SubSeq(s, i, i + Len(word) - 1) = word
  THEN [ok |-> TRUE, v |-> value, i |-> i + Len(word)]
  ELSE Fail

RECURSIVE ParseValue(_, _)
RECURSIVE ParseMembers(_, _, _)

\* s[i] starts a member ("key": value); acc holds the members read so far.
ParseMembers(s, i, acc) ==
  IF i > Len(s) \/ s[i] # "\"" THEN Fail
  ELSE LET key == ParseStringBody(s, i + 1, <<>>) IN
    IF ~key.ok THEN Fail
    ELSE LET c == SkipWs(s, key.i) IN
      IF c > Len(s) \/ s[c] # ":" THEN Fail
      ELSE LET val == ParseValue(s, c + 1) IN
        IF ~val.ok THEN Fail
        ELSE LET n == SkipWs(s, val.i)
                 members == Append(acc, [k |-> key.v.s, v |-> val.v])
             IN IF n > Len(s) THEN Fail
                ELSE IF s[n] = "}" THEN [ok |-> TRUE, v |-> [t |-> "object", members |-> members], i |-> n + 1]
                ELSE IF s[n] = "," THEN ParseMembers(s, SkipWs(s, n + 1), members)
                ELSE Fail

ParseValue(s, i0) ==
  LET i == SkipWs(s, i0) IN
  IF i > Len(s) THEN Fail
  ELSE IF s[i] = "{" THEN
    LET j == SkipWs(s, i + 1) IN
    IF j <= Len(s) /\ s[j] = "}"
    THEN [ok |-> TRUE, v |-> [t |-> "object", members |-> <<>>], i |-> j + 1]
    ELSE ParseMembers(s, j, <<>>)
  ELSE IF s[i] = "\"" THEN ParseStringBody(s, i + 1, <<>>)
  ELSE IF IsDigit(s[i]) THEN ParseDigits(s, i, <<>>)
  ELSE IF s[i] = "t" THEN ParseLiteral(s, i, <<"t", "r", "u", "e">>, [t |-> "true"])
  ELSE IF s[i] = "f" THEN ParseLiteral(s, i, <<"f", "a", "l", "s", "e">>, [t |-> "false"])
  ELSE IF s[i] = "n" THEN ParseLiteral(s, i, <<"n", "u", "l", "l">>, [t |-> "null"])
  ELSE Fail

\* JSON.parse(text): ok is FALSE where JSON.parse throws a SyntaxError.
JSONParse(text) ==
  LET r == ParseValue(text, 1) IN
  IF r.ok /\ SkipWs(text, r.i) > Len(text) THEN [ok |-> TRUE, v |-> r.v] ELSE Fail

(***************************************************************************)
(* Integration tokens passed to init.                                      *)
(***************************************************************************)
\* base64 of {"integrationId":"ab"}
T1 ==
  <<"e", "y", "J", "p", "b", "n", "R", "l", "Z", "3", "J", "h", "d", "G", "l", "v", "b",
    "k", "l", "k", "I", "j", "o", "i", "Y", "W", "I", "i", "f", "Q", "=", "=">>

\* base64 of {"integrationId":"cd"}
T2 ==
  <<"e", "y", "J", "p", "b", "n", "R", "l", "Z", "3", "J", "h", "d", "G", "l", "v", "b",
    "k", "l", "k", "I", "j", "o", "i", "Y", "2", "Q", "i", "f", "Q", "=", "=">>

\* base64 of {"integrationId":7}
TNumericId ==
  <<"e", "y", "J", "p", "b", "n", "R", "l", "Z", "3", "J", "h", "d", "G", "l", "v", "b",
    "k", "l", "k", "I", "j", "o", "3", "f", "Q", "=", "=">>

\* base64 of { "integrationId" : "ab" }
TSpacedJson ==
  <<"e", "y", "A", "i", "a", "W", "5", "0", "Z", "W", "d", "y", "Y", "X", "R", "p", "b",
    "2", "5", "J", "Z", "C", "I", "g", "O", "i", "A", "i", "Y", "W", "I", "i", "I", "H",
    "0", "=">>

\* base64 of {"integrationId":""}
TEmptyId ==
  <<"e", "y", "J", "p", "b", "n", "R", "l", "Z", "3", "J", "h", "d", "G", "l", "v", "b",
    "k", "l", "k", "I", "j", "o", "i", "I", "n", "0", "=">>

\* base64 of {"id":"ab"}
TNoId ==
  <<"e", "y", "J", "p", "Z", "C", "I", "6", "I", "m", "F", "i", "I", "n", "0", "=">>

\* base64 of {"integrationId":null}
TNullId ==
  <<"e", "y", "J", "p", "b", "n", "R", "l", "Z", "3", "J", "h", "d", "G", "l", "v", "b",
    "k", "l", "k", "I", "j", "p", "u", "d", "W", "x", "s", "f", "Q", "=", "=">>

\* base64 of not json
TNotJson ==
  <<"b", "m", "9", "0", "I", "G", "p", "z", "b", "2", "4", "=">>

\* base64 of {"integrationId":"ab"
TTruncatedJson ==
  <<"e", "y", "J", "p", "b", "n", "R", "l", "Z", "3", "J", "h", "d", "G", "l", "v", "b",
    "k", "l", "k", "I", "j", "o", "i", "Y", "W", "I", "i">>

\* base64 of "ab"
TJsonString ==
  <<"I", "m", "F", "i", "I", "g", "=", "=">>

\* base64 of null
TJsonNull ==
  <<"b", "n", "V", "s", "b", "A", "=", "=">>

\* T1 with a character outside the base64 alphabet inside it
T1Bang ==
  <<"e", "y", "J", "p", "b", "!", "n", "R", "l", "Z", "3", "J", "h", "d", "G", "l", "v",
    "b", "k", "l", "k", "I", "j", "o", "i", "Y", "W", "I", "i", "f", "Q", "=", "=">>

\* T1 without its padding
T1NoPad ==
  <<"e", "y", "J", "p", "b", "n", "R", "l", "Z", "3", "J", "h", "d", "G", "l", "v", "b",
    "k", "l", "k", "I", "j", "o", "i", "Y", "W", "I", "i", "f", "Q">>

\* T1 with a space inside it
T1Spaced ==
  <<"e", "y", "J", "p", "b", "n", "R", "l", " ", "Z", "3", "J", "h", "d", "G", "l", "v",
    "b", "k", "l", "k", "I", "j", "o", "i", "Y", "W", "I", "i", "f", "Q", "=", "=">>

\* T1 with a padding character inside it
T1Cut ==
  <<"e", "y", "J", "p", "b", "n", "R", "l", "Z", "3", "=", "J", "h", "d", "G", "l", "v",
    "b", "k", "l", "k", "I", "j", "o", "i", "Y", "W", "I", "i", "f", "Q", "=", "=">>

\* no base64 character at all
TNoise ==
  <<"!", "!", "!", "!">>

AllTokens ==
  {T1, T2, TNumericId, TSpacedJson, TEmptyId, TNoId, TNullId, TNotJson, TTruncatedJson,
   TJsonString, TJsonNull, T1Bang, T1NoPad, T1Spaced, T1Cut, TNoise}

(***************************************************************************)
(* JavaScript values as the constructor uses them.                         *)
(***************************************************************************)
\* !v for a parsed JSON value.
IsFalsy(v) ==
  \/ v.t \in {"undefined", "null", "false"}
  \/ v.t = "string" /\ v.s = <<>>
  \/ v.t = "number" /\ v.s = <<"0">>

\* `${v}` for a parsed JSON value.
ToStringJS(v) ==
  CASE v.t \in {"string", "number"} -> v.s
    [] v.t = "true" -> <<"t", "r", "u", "e">>
    [] v.t = "false" -> <<"f", "a", "l", "s", "e">>
    [] v.t = "null" -> <<"n", "u", "l", "l">>
    [] v.t = "object" -> <<"[", "o", "b", "j", "e", "c", "t", " ", "O", "b", "j", "e", "c", "t", "]">>
    [] OTHER -> <<"u", "n", "d", "e", "f", "i", "n", "e", "d">>

\* v[name]: the last member with that key; undefined for a value that is
\* not an object or has no such member.
RECURSIVE LookupMember(_, _, _)
LookupMember(members, name, n) ==
  IF n = 0 THEN [t |-> "undefined"]
  ELSE IF members[n].k = name THEN members[n].v
  ELSE LookupMember(members, name, n - 1)

GetProperty(v, name) ==
  IF v.t = "object" THEN LookupMember(v.members, name, Len(v.members)) ELSE [t |-> "undefined"]

\* Object.assign(target, source): the target after the call.
ObjectAssign(target, source) ==
  [k \in DOMAIN target \cup DOMAIN source |-> IF k \in DOMAIN source THEN source[k] ELSE target[k]]

EmptyObject == <<>>

(***************************************************************************)
(* class Catcher                                                           *)
(***************************************************************************)
type == "errors/react-native"

MissingTokenMessage == "Integration Token is missed. You can get it on https://hawk.so at Project Settings."
InvalidTokenMessage == "Invalid integration token"

IntegrationIdKey == <<"i", "n", "t", "e", "g", "r", "a", "t", "i", "o", "n", "I", "d">>
EndpointPrefix == <<"h", "t", "t", "p", "s", ":", "/", "/">>
EndpointSuffix == <<".", "k", "1", ".", "h", "a", "w", "k", ".", "s", "o", "/">>

\* Catcher.getVersion
getVersion == "1.0.0"

\* getIntegrationId without its check of the integration id.
DecodeIntegrationIdNoCheck(token) ==
  LET decodedIntegrationTokenAsString == BufferToString(BufferFromBase64(token))
      parsed == JSONParse(decodedIntegrationTokenAsString)
  IN IF ~parsed.ok \/ parsed.v.t = "null" THEN [threw |-> TRUE]
     ELSE [threw |-> FALSE, value |-> GetProperty(parsed.v, IntegrationIdKey)]

\* Catcher.getIntegrationId: threw is TRUE where the method throws
\* (SyntaxError of JSON.parse, TypeError on null, or its own Error).
DecodeIntegrationId(token) ==
  LET decodedIntegrationTokenAsString == BufferToString(BufferFromBase64(token))
      parsed == JSONParse(decodedIntegrationTokenAsString)
  IN IF ~parsed.ok \/ parsed.v.t = "null" THEN [threw |-> TRUE]
     ELSE LET integrationId == GetProperty(parsed.v, IntegrationIdKey) IN
          IF IsFalsy(integrationId) \/ (integrationId.t = "string" /\ integrationId.s = <<>>)
          THEN [threw |-> TRUE]
          ELSE [threw |-> FALSE, value |-> integrationId]

\* The method is a function of the token alone: its result for each token
\* of AllTokens is computed once.
IntegrationIdOf == [token \in AllTokens |-> DecodeIntegrationId(token)]

getIntegrationId(token) == IntegrationIdOf[token]

\* The settings of a call: a bare string (form "string", of which only
\* token is read) or an options object.
NormalizeSettings(settings) ==
  IF settings.form = "string"
  THEN [form |-> "object", token |-> settings.token, collectorEndpoint |-> None,
        context |-> None, beforeSend |-> "undefined", disableGlobalErrorsHandling |-> FALSE]
  ELSE settings

\* The endpoint always derived from the integration id.
ResolveCollectorEndpointNoOverride(collectorEndpoint, integrationId) ==
  Some(EndpointPrefix \o ToStringJS(integrationId) \o EndpointSuffix)

\* settings.collectorEndpoint || `https://${integrationId}.k1.hawk.so/`
ResolveCollectorEndpoint(collectorEndpoint, integrationId) ==
  IF collectorEndpoint # None /\ collectorEndpoint # Some(<<>>)
  THEN collectorEndpoint
  ELSE Some(EndpointPrefix \o ToStringJS(integrationId) \o EndpointSuffix)

\* A constructor that installs the global handlers before it decodes the token.
ConstructorHandlersFirst(settings0) ==
  LET settings == NormalizeSettings(settings0)
      self == [token |-> settings.token, context |-> settings.context,
               beforeSend |-> settings.beforeSend, collectorEndpoint |-> None]
  IN IF settings.token = None \/ settings.token = Some(<<>>)
     THEN [error |-> Some(MissingTokenMessage), self |-> self, installed |-> FALSE]
     ELSE LET integrationId == getIntegrationId(settings.token[1]) IN
          IF integrationId.threw
          THEN [error |-> Some(InvalidTokenMessage), self |-> self,
                installed |-> ~settings.disableGlobalErrorsHandling]
          ELSE [error |-> None,
                self |-> [self EXCEPT !.collectorEndpoint =
                            ResolveCollectorEndpoint(settings.collectorEndpoint, integrationId.value)],
                installed |-> ~settings.disableGlobalErrorsHandling]

\* new Catcher(settings).  self is the object as the constructor leaves it,
\* error the message of the Error it throws (None: it returns), installed
\* tells whether it has called setJSExceptionHandler.
Constructor(settings0) ==
  LET settings == NormalizeSettings(settings0)
      self == [token |-> settings.token, context |-> settings.context,
               beforeSend |-> settings.beforeSend, collectorEndpoint |-> None]
  IN IF settings.token = None \/ settings.token = Some(<<>>)
     THEN [error |-> Some(MissingTokenMessage), self |-> self, installed |-> FALSE]
     ELSE LET integrationId == getIntegrationId(settings.token[1]) IN
          IF integrationId.threw
          THEN [error |-> Some(InvalidTokenMessage), self |-> self, installed |-> FALSE]
          ELSE [error |-> None,
                self |-> [self EXCEPT !.collectorEndpoint =
                            ResolveCollectorEndpoint(settings.collectorEndpoint, integrationId.value)],
                installed |-> ~settings.disableGlobalErrorsHandling]

\* Catcher.getUser
getUser(user) == user

\* getContext with the two Object.assign calls in the other order.
getContextDefaultWins(thisContext, context) ==
  LET afterCall == IF context # None THEN ObjectAssign(EmptyObject, context[1]) ELSE EmptyObject
      contextMerged == IF thisContext # None THEN ObjectAssign(afterCall, thisContext[1]) ELSE afterCall
  IN [result |-> contextMerged, thisContext |-> thisContext, context |-> context]

\* Catcher.getContext: the merged object it returns, and this.context and
\* the caller's context object as the method leaves them.
getContext(thisContext, context) ==
  LET afterDefault == IF thisContext # None THEN ObjectAssign(EmptyObject, thisContext[1]) ELSE EmptyObject
      contextMerged == IF context # None THEN ObjectAssign(afterDefault, context[1]) ELSE afterDefault
  IN [result |-> contextMerged, thisContext |-> thisContext, context |-> context]

\* new EventPayload(err) of ./modules/event: getTitle, getType, getBacktrace.
EventPayload(err) ==
  [title |-> err.message, type |-> err.name,
   backtrace |-> IF err.stack = None THEN <<>> ELSE err.stack[1]]

\* The beforeSend functions a caller supplies here; "undefined" is no hook.
ApplyBeforeSend(hook, payload) ==
  CASE hook = "maskTitle" -> [payload EXCEPT !.title = "[redacted]"]
    [] hook = "dropUser" -> [payload EXCEPT !.user = None]
    [] hook = "malformed" -> [redacted |-> TRUE]
    [] OTHER -> payload

\* The hook is called and what it returns is dropped.
FilterSensitiveDataDropsResult(beforeSend, payload) == payload

\* formatAndSend's "Filter sensitive data" step.
FilterSensitiveData(beforeSend, payload) ==
  IF beforeSend # "undefined" THEN ApplyBeforeSend(beforeSend, payload) ELSE payload

\* Catcher.sendErrorFormatted, up to the call of fetch: the requests issued.
sendErrorFormatted(self, eventFormatted) ==
  <<[url |-> self.collectorEndpoint, method |-> "POST", eventFormatted |-> eventFormatted]>>

\* fetch(): the promise it returns is rejected on a network failure only;
\* a response of any status fulfils it.
FetchPromise(outcome) == IF outcome = "network_error" THEN "rejected" ELSE "fulfilled"

\* The promise chain without its .catch().
sendErrorFormattedCatchMissing(outcome) ==
  [promise |-> FetchPromise(outcome), logged |-> <<>>]

\* Catcher.sendErrorFormatted, the .catch() of the promise chain: the state
\* of the promise the method returns and the lines written by console.error.
sendErrorFormattedCatch(outcome) ==
  IF FetchPromise(outcome) = "rejected"
  THEN [promise |-> "fulfilled", logged |-> <<[level |-> "error", text |-> "[Hawk] Cannot send an event because of", isFatal |-> FALSE]>>]
  ELSE [promise |-> "fulfilled", logged |-> <<>>]

\* Catcher.formatAndSend: the requests issued and the objects as it leaves them.
formatAndSend(self, err, context, user) ==
  LET eventPayload == EventPayload(err)
      merged == getContext(self.context, context)
      payload == [title |-> eventPayload.title, type |-> eventPayload.type,
                  backtrace |-> eventPayload.backtrace, user |-> getUser(user),
                  context |-> merged.result, catcherVersion |-> getVersion]
      sent == FilterSensitiveData(self.beforeSend, payload)
  IN [requests |-> sendErrorFormatted(self, [token |-> self.token, catcherType |-> type, payload |-> sent]),
      composed |-> payload,
      self |-> [self EXCEPT !.context = merged.thisContext],
      context |-> merged.context]

\* Catcher.send
Catcher_send(self, error, context, user) == formatAndSend(self, error, context, user)

\* The callback initGlobalHandlers passes to setJSExceptionHandler.
initGlobalHandlers(self, error, isFatal) ==
  [logged |-> <<[level |-> "log", text |-> "Error", isFatal |-> isFatal]>>,
   requests |-> sendErrorFormatted(self, [catcherType |-> type, payload |-> [title |-> error.name], token |-> self.token])]

CustomEndpoint ==
  <<"h", "t", "t", "p", "s", ":", "/", "/", "c", ".", "i", "o", "/">>

(***************************************************************************)
(* export default class HawkCatcher, over the module-level _instance.      *)
(* Catcher objects live in `objects`; a reference is an index into it,     *)
(* and 0 is undefined.                                                     *)
(***************************************************************************)
\* An init that keeps an _instance that is already set.
HawkCatcher_initKeepsFirst(objs, inst, hnd, settings) ==
  LET c == Constructor(settings)
      kept == c.error = None \/ c.installed
      objs2 == IF kept THEN Append(objs, c.self) ELSE objs
  IN [objects |-> objs2,
      instance |-> IF c.error = None /\ inst = 0 THEN Len(objs2) ELSE inst,
      handler |-> IF c.installed THEN Len(objs2) ELSE hnd,
      threw |-> c.error,
      constructed |-> c.self]

\* HawkCatcher.init: the construction, then the assignment of _instance,
\* which a throwing constructor prevents.  What the constructor registered
\* with setJSExceptionHandler stays registered either way.
HawkCatcher_init(objs, inst, hnd, settings) ==
  LET c == Constructor(settings)
      kept == c.error = None \/ c.installed
      objs2 == IF kept THEN Append(objs, c.self) ELSE objs
  IN [objects |-> objs2,
      instance |-> IF c.error = None THEN Len(objs2) ELSE inst,
      handler |-> IF c.installed THEN Len(objs2) ELSE hnd,
      threw |-> c.error,
      constructed |-> c.self]

\* A send that calls _instance.send without testing _instance.
HawkCatcher_sendUnguarded(objs, inst, error, context, user) ==
  IF inst # 0
  THEN LET r == Catcher_send(objs[inst], error, context, user) IN
       [threw |-> None, requests |-> r.requests, composed |-> Some(r.composed),
        objects |-> [objs EXCEPT ![inst] = r.self], context |-> r.context]
  ELSE [threw |-> Some("TypeError: Cannot read properties of undefined"), requests |-> <<>>,
        composed |-> None, objects |-> objs, context |-> context]

\* HawkCatcher.send
HawkCatcher_send(objs, inst, error, context, user) ==
  IF inst # 0
  THEN LET r == Catcher_send(objs[inst], error, context, user) IN
       [threw |-> None, requests |-> r.requests, composed |-> Some(r.composed),
        objects |-> [objs EXCEPT ![inst] = r.self], context |-> r.context]
  ELSE [threw |-> None, requests |-> <<>>, composed |-> None,
        objects |-> objs, context |-> context]

(***************************************************************************)
(* State                                                                   *)
(***************************************************************************)
VARIABLES
  objects,    \* the Catcher objects constructed so far that are still referenced
  instance,   \* _instance
  handler,    \* the Catcher whose callback setJSExceptionHandler holds
  posts,      \* the requests issued through fetch, with their outcome
  console,    \* the lines written to the console
  lastCall    \* what the caller of the last call passed and observed

vars == <<objects, instance, handler, posts, console, lastCall>>

MaxInits == 2
MaxEnvelopes == 2

NoCall == [op |-> "none", threw |-> None, settings |-> None, resolved |-> None,
           arg |-> None, context |-> None, composed |-> None]

\* The envelopes handed to sendErrorFormatted so far.
Envelopes == IF posts = <<>> THEN 0 ELSE posts[Len(posts)].envelope

Issue(requests, via) ==
  [i \in 1..Len(requests) |->
     [url |-> requests[i].url, method |-> requests[i].method,
      eventFormatted |-> requests[i].eventFormatted,
      envelope |-> Envelopes + 1, via |-> via, outcome |-> "pending", promise |-> "pending"]]

Init ==
  /\ objects = <<>>
  /\ instance = 0
  /\ handler = 0
  /\ posts = <<>>
  /\ console = <<>>
  /\ lastCall = NoCall

\* The application calls HawkCatcher.init(settings).
Facade_init(settings) ==
  /\ Len(objects) < MaxInits
  /\ \E r \in {HawkCatcher_init(objects, instance, handler, settings)} :
     /\ objects' = r.objects
     /\ instance' = r.instance
     /\ handler' = r.handler
     /\ lastCall' = [NoCall EXCEPT !.op = "init", !.threw = r.threw,
                                   !.settings = Some(settings),
                                   !.resolved = r.constructed.collectorEndpoint]
  /\ UNCHANGED <<posts, console>>

\* The application calls HawkCatcher.send(error, context, user).
Facade_send(error, context, user) ==
  /\ Envelopes < MaxEnvelopes
  /\ \E r \in {HawkCatcher_send(objects, instance, error, context, user)} :
     /\ objects' = r.objects
     /\ posts' = posts \o Issue(r.requests, "send")
     /\ lastCall' = [NoCall EXCEPT !.op = "send", !.threw = r.threw, !.arg = context,
                                   !.context = r.context, !.composed = r.composed]
  /\ UNCHANGED <<instance, handler, console>>

\* The host runtime reports an uncaught exception to the registered callback.
UncaughtException(error, isFatal) ==
  /\ handler # 0
  /\ Envelopes < MaxEnvelopes
  /\ \E r \in {initGlobalHandlers(objects[handler], error, isFatal)} :
     /\ console' = console \o r.logged
     /\ posts' = posts \o Issue(r.requests, "global")
  /\ lastCall' = [NoCall EXCEPT !.op = "uncaught"]
  /\ UNCHANGED <<objects, instance, handler>>

\* The fetch of request i ends: a success response, a non-success response
\* or a network failure.
FetchSettles(i, outcome) ==
  /\ posts[i].outcome = "pending"
  /\ \E r \in {sendErrorFormattedCatch(outcome)} :
     /\ posts' = [posts EXCEPT ![i].outcome = outcome, ![i].promise = r.promise]
     /\ console' = console \o r.logged
  /\ UNCHANGED <<objects, instance, handler, lastCall>>

Outcomes == {"ok", "http_error", "network_error"}

(***************************************************************************)
(* Inputs                                                                  *)
(***************************************************************************)
Options(token, endpoint, context, hook, disable) ==
  [form |-> "object", token |-> token, collectorEndpoint |-> endpoint, context |-> context,
   beforeSend |-> hook, disableGlobalErrorsHandling |-> disable]

BareToken(token) ==
  [form |-> "string", token |-> Some(token), collectorEndpoint |-> None, context |-> None,
   beforeSend |-> "undefined", disableGlobalErrorsHandling |-> FALSE]

TypeErrorBoom == [name |-> "TypeError", message |-> "boom", stack |-> Some(<<"at f (app.js:1:1)">>)]
ErrorNoStack == [name |-> "Error", message |-> "oops", stack |-> None]

\* The facade under re-initialisation and delivery outcomes.
MainSettings ==
  {Options(t, None, None, "undefined", d) :
     t \in {None, Some(TNotJson), Some(T1), Some(T2)}, d \in BOOLEAN}

Next ==
  \/ \E s \in MainSettings : Facade_init(s)
  \/ Facade_send(TypeErrorBoom, None, None)
  \/ UncaughtException(TypeErrorBoom, TRUE)
  \/ \E i \in 1..Len(posts), o \in Outcomes : FetchSettles(i, o)

Spec == Init /\ [][Next]_vars

\* Token decoding and endpoint resolution: one construction, then deliveries.
TokenSettings ==
  {Options(Some(t), e, None, "undefined", d) :
     t \in AllTokens, e \in {None, Some(<<>>), Some(CustomEndpoint)}, d \in BOOLEAN}
  \cup {Options(t, None, None, "undefined", FALSE) : t \in {None, Some(<<>>)}}
  \cup {BareToken(t) : t \in {T1, T1Bang, TNoId}}

NextToken ==
  \/ \E s \in TokenSettings : instance = 0 /\ Facade_init(s)
  \/ Facade_send(TypeErrorBoom, None, None)
  \/ \E f \in BOOLEAN : UncaughtException(ErrorNoStack, f)

SpecToken == Init /\ [][NextToken]_vars

\* Context merging and the beforeSend hook: one construction, then sends.
Obj1(k, v) == [x \in {k} |-> v]
Obj2(k1, v1, k2, v2) == [x \in {k1, k2} |-> IF x = k1 THEN v1 ELSE v2]

DefaultContexts == {None, Some(EmptyObject), Some(Obj1("a", 1)), Some(Obj2("a", 1, "b", 2))}
CallContexts == {None, Some(EmptyObject), Some(Obj1("c", 4)), Some(Obj2("b", 3, "c", 4))}
Hooks == {"undefined", "maskTitle", "dropUser", "malformed"}
Users == {None, Some([id |-> 1])}

ContextSettings == {Options(Some(T1), None, c, h, TRUE) : c \in DefaultContexts, h \in Hooks}

NextContext ==
  \/ \E s \in ContextSettings : instance = 0 /\ Facade_init(s)
  \/ \E e \in {TypeErrorBoom, ErrorNoStack}, c \in CallContexts, u \in Users : Facade_send(e, c, u)

SpecContext == Init /\ [][NextContext]_vars

(***************************************************************************)
(* Expected values, written out independently of the operators above.      *)
(***************************************************************************)
EndpointAb ==
  <<"h", "t", "t", "p", "s", ":", "/", "/", "a", "b", ".", "k", "1", ".", "h", "a", "w", "k", ".", "s", "o", "/">>
EndpointCd ==
  <<"h", "t", "t", "p", "s", ":", "/", "/", "c", "d", ".", "k", "1", ".", "h", "a", "w", "k", ".", "s", "o", "/">>
Endpoint7 ==
  <<"h", "t", "t", "p", "s", ":", "/", "/", "7", ".", "k", "1", ".", "h", "a", "w", "k", ".", "s", "o", "/">>

\* Tokens that are well-formed base64 of JSON with a non-empty integrationId.
WellFormedTokens == {T1, T2, TNumericId, TSpacedJson}
\* Tokens that are not well-formed base64 and that Buffer.from still
\* decodes to the JSON text of T1.
LenientTokens == {T1Bang, T1NoPad, T1Spaced}
\* Tokens whose decoding is not JSON.
NotJsonTokens == {TNotJson, TTruncatedJson, T1Cut, TNoise}
\* Tokens whose decoding is JSON without a non-empty integrationId.
NoIdTokens == {TEmptyId, TNoId, TNullId, TJsonString, TJsonNull}

ExpectedDerivedEndpoint(token) ==
  CASE token \in {T1, TSpacedJson} \cup LenientTokens -> EndpointAb
    [] token = T2 -> EndpointCd
    [] token = TNumericId -> Endpoint7

\* RFC 4648 base64: a multiple of four characters of the standard alphabet,
\* the last one or two of which may be padding.
IsStrictBase64(token) ==
  LET n == Len(token)
      pad == IF n > 0 /\ token[n] = "=" THEN (IF n > 1 /\ token[n - 1] = "=" THEN 2 ELSE 1) ELSE 0
  IN /\ n % 4 = 0
     /\ \A i \in 1..(n - pad) : \E j \in 1..64 : Base64Alphabet[j] = token[i]

\* The step is a call of HawkCatcher.send.
SendStep == lastCall'.op = "send" /\ (Len(posts') > Len(posts) \/ lastCall' # lastCall)
\* The step is a call of HawkCatcher.init.
InitStep == lastCall'.op = "init" /\ lastCall' # lastCall /\ posts' = posts

InitToken == lastCall.settings[1].token[1]
InitFailedInvalid ==
  /\ lastCall.threw = Some(InvalidTokenMessage)
  /\ lastCall.resolved = None
  /\ objects = <<>> /\ instance = 0 /\ handler = 0

ErrorLines == {j \in 1..Len(console) : console[j].level = "error"}
FailedPosts == {i \in 1..Len(posts) : posts[i].outcome \in {"network_error", "http_error"}}

(***************************************************************************)
(* Claims                                                                  *)
(***************************************************************************)
\* C1: a send never raises to its caller and leaves no rejected promise,
\* whatever the outcome of the POST (success response, non-success
\* response, network failure).
C1_SendNeverRaises ==
  /\ lastCall.op = "send" => lastCall.threw = None
  /\ \A i \in 1..Len(posts) :
       /\ posts[i].promise # "rejected"
       /\ posts[i].outcome # "pending" => posts[i].promise = "fulfilled"

C1_Witness ==
  /\ lastCall.op = "send"
  /\ \E i \in 1..Len(posts) : posts[i].via = "send" /\ posts[i].outcome = "network_error"
  /\ \E i \in 1..Len(posts) : posts[i].via = "send" /\ posts[i].outcome = "http_error"

\* C2: after two successful inits with different tokens, every later send
\* issues one POST, to the endpoint derived from the later token and with
\* the later token in the envelope.
C2_SendRoutesToSecondToken ==
  [][(/\ SendStep
      /\ Len(objects) >= 2
      /\ objects[Len(objects) - 1].token # objects[Len(objects)].token)
     => /\ Len(posts') = Len(posts) + 1
        /\ posts'[Len(posts')].url = Some(ExpectedDerivedEndpoint(objects[Len(objects)].token[1]))
        /\ posts'[Len(posts')].eventFormatted.token = objects[Len(objects)].token
        /\ posts'[Len(posts')].url # objects[Len(objects) - 1].collectorEndpoint]_vars

C2_Witness ==
  /\ Len(objects) = 2 /\ objects[1].token = Some(T1) /\ objects[2].token = Some(T2)
  /\ lastCall.op = "send"
  /\ posts # <<>>
  /\ posts[Len(posts)].via = "send"
  /\ posts[Len(posts)].url = Some(EndpointCd)

\* C3: while no init has succeeded, a send issues no POST, raises nothing
\* and leaves _instance undefined.
C3_SendBeforeInitIsNoOp ==
  objects = <<>> =>
    /\ instance = 0
    /\ posts = <<>>
    /\ lastCall.op = "send" => lastCall.threw = None /\ lastCall.composed = None

C3_Witness == objects = <<>> /\ lastCall.op = "send" /\ posts = <<>>

\* C4 as stated: a construction with a non-empty token that is not valid
\* base64, does not decode to JSON, or decodes to a value without a
\* non-empty integrationId fails with the invalid-token error, resolves no
\* endpoint and installs no handler.
C4_Original ==
  (/\ lastCall.op = "init"
   /\ lastCall.settings[1].token \notin {None, Some(<<>>)}
   /\ \/ ~IsStrictBase64(InitToken)
      \/ InitToken \in NotJsonTokens
      \/ InitToken \in NoIdTokens)
  => InitFailedInvalid

\* C4 as amended: a construction with a non-empty token whose decoding by
\* Buffer.from (characters outside the alphabet skipped, stop at the first
\* "=") is not JSON, or is JSON without a non-empty integrationId, fails
\* with the invalid-token error, resolves no endpoint and installs no
\* handler; a token that is not well-formed base64 and still decodes to
\* JSON with a non-empty integrationId is accepted.
C4_InvalidTokenRejected ==
  /\ (lastCall.op = "init" /\ lastCall.settings[1].token \notin {None, Some(<<>>)}
      /\ InitToken \in NotJsonTokens \cup NoIdTokens)
     => InitFailedInvalid
  /\ (lastCall.op = "init" /\ lastCall.settings[1].token \notin {None, Some(<<>>)}
      /\ InitToken \in LenientTokens)
     => lastCall.threw = None /\ lastCall.resolved # None

C4_Witness ==
  /\ lastCall.op = "init"
  /\ lastCall.settings[1].token = Some(TNoId)
  /\ lastCall.settings[1].disableGlobalErrorsHandling = FALSE
  /\ lastCall.threw = Some(InvalidTokenMessage)

\* C5: a construction with a token that is valid base64 of JSON with a
\* non-empty integrationId succeeds; the endpoint it resolves, and the URL
\* of every later request, is the collectorEndpoint of the settings when
\* one (a non-empty string) is supplied and https://{integrationId}.k1.hawk.so/
\* otherwise.
C5_EndpointResolved ==
  /\ (lastCall.op = "init" /\ lastCall.settings[1].token \notin {None, Some(<<>>)}
      /\ InitToken \in WellFormedTokens)
     => /\ lastCall.threw = None
        /\ instance # 0
        /\ lastCall.resolved =
             IF lastCall.settings[1].collectorEndpoint \in {None, Some(<<>>)}
             THEN Some(ExpectedDerivedEndpoint(InitToken))
             ELSE lastCall.settings[1].collectorEndpoint
        /\ objects[instance].collectorEndpoint = lastCall.resolved
  /\ \A i \in 1..Len(posts) :
       /\ instance # 0
       /\ posts[i].url = objects[instance].collectorEndpoint
       /\ posts[i].url \in {Some(CustomEndpoint), Some(EndpointAb), Some(EndpointCd), Some(Endpoint7)}

C5_Witness ==
  /\ instance # 0
  /\ objects[instance].token = Some(TNumericId)
  /\ \E i \in 1..Len(posts) : posts[i].url = Some(Endpoint7)
  /\ \E i \in 1..Len(posts) : posts[i].via = "send"

\* The keys of an optional object.
KeysOf(o) == IF o = None THEN {} ELSE DOMAIN o[1]

\* m has the keys of d and c together, c's value where c has the key and
\* d's value elsewhere.
IsMergeOf(m, d, c) ==
  /\ DOMAIN m = KeysOf(d) \cup KeysOf(c)
  /\ \A k \in DOMAIN m : m[k] = IF k \in KeysOf(c) THEN c[1][k] ELSE d[1][k]

\* C6: the context a send puts in the payload has the keys of the default
\* and the call context together, the call context's value on a key of
\* both; it is the empty object when both are absent; the send leaves the
\* instance's default context and the caller's object as they were.
C6_ContextMerged ==
  [][(SendStep /\ instance # 0)
     => /\ lastCall'.composed # None
        /\ IsMergeOf(lastCall'.composed[1].context, objects[instance].context, lastCall'.arg)
        /\ (objects[instance].context = None /\ lastCall'.arg = None
              => lastCall'.composed[1].context = EmptyObject)
        /\ objects' = objects
        /\ lastCall'.context = lastCall'.arg]_vars

C6_Witness ==
  /\ instance # 0
  /\ lastCall.op = "send"
  /\ objects[instance].context = Some(Obj2("a", 1, "b", 2))
  /\ lastCall.arg = Some(Obj2("b", 3, "c", 4))
  /\ lastCall.composed # None
  /\ lastCall.composed[1].context = [k \in {"a", "b", "c"} |-> IF k = "a" THEN 1 ELSE IF k = "b" THEN 3 ELSE 4]
  /\ Len(posts) = 2

\* C7: with a beforeSend hook the payload of the envelope handed to the
\* delivery is what the hook returned for the composed payload, and not the
\* composed payload where the two differ; without a hook it is the
\* composed payload.
C7_HookResultSent ==
  [][(SendStep /\ instance # 0)
     => LET hook == objects[instance].beforeSend
            composed == lastCall'.composed[1]
            sent == posts'[Len(posts')].eventFormatted.payload
        IN /\ Len(posts') = Len(posts) + 1
           /\ hook = "undefined" => sent = composed
           /\ hook = "maskTitle" => sent = [composed EXCEPT !.title = "[redacted]"] /\ sent # composed
           /\ hook = "dropUser" => sent = [composed EXCEPT !.user = None]
           /\ hook = "malformed" => sent = [redacted |-> TRUE] /\ sent # composed]_vars

C7_Witness ==
  /\ instance # 0
  /\ objects[instance].beforeSend = "maskTitle"
  /\ lastCall.op = "send"
  /\ posts # <<>>
  /\ posts[Len(posts)].eventFormatted.payload.title = "[redacted]"
  /\ lastCall.composed[1].title = "boom"

\* C8 as stated: a delivery whose POST ends in a network failure or in a
\* non-success response is caught and logged with console.error, leaves no
\* rejected promise, and is the only POST of its envelope.
C8_FailureLoggedNotRetried ==
  /\ \A i \in FailedPosts : posts[i].promise = "fulfilled"
  /\ Cardinality(ErrorLines) = Cardinality(FailedPosts)
  /\ \A e \in 1..Envelopes : Cardinality({i \in 1..Len(posts) : posts[i].envelope = e}) = 1

\* C9 as stated: once a second init has succeeded, every envelope, of a
\* send or of the global exception callback, carries the token of the
\* current instance and goes to its endpoint.
C9_OnlyLatestCatcherSends ==
  [][(Len(posts') > Len(posts) /\ Len(objects) >= 2 /\ instance # 0)
     => \A i \in (Len(posts) + 1)..Len(posts') :
          /\ posts'[i].eventFormatted.token = objects[instance].token
          /\ posts'[i].url = objects[instance].collectorEndpoint]_vars

\* C10: an init that fails raises the missing-token or the invalid-token
\* error and leaves _instance, the registered callback and the Catcher
\* objects as they were; the send that follows it goes to the endpoint of
\* the last Catcher constructed, or issues nothing when there is none.
C10_FailedInitChangesNothing ==
  [][/\ (InitStep /\ lastCall'.threw # None)
        => /\ lastCall'.threw \in {Some(MissingTokenMessage), Some(InvalidTokenMessage)}
           /\ instance' = instance
           /\ handler' = handler
           /\ objects' = objects
     /\ (SendStep /\ lastCall.op = "init" /\ lastCall.threw # None)
        => IF objects = <<>>
           THEN posts' = posts /\ lastCall'.threw = None
           ELSE /\ Len(posts') = Len(posts) + 1
                /\ posts'[Len(posts')].url =
                     Some(ExpectedDerivedEndpoint(objects[Len(objects)].token[1]))]_vars

C10_Witness ==
  /\ lastCall.op = "init"
  /\ lastCall.threw = Some(InvalidTokenMessage)
  /\ lastCall.settings[1].disableGlobalErrorsHandling = FALSE
  /\ Len(objects) = 1 /\ instance = 1 /\ handler = 1
  /\ objects[1].token = Some(T1)
  /\ posts # <<>>

=============================================================================
